---- MODULE Spec2Model ----
(***************************************************************************)
(* Model of weather-dashboard.py: the WeatherDashboard object, its fetch   *)
(* loops, prepare_data, the renderers and exporters, run_dashboard and     *)
(* main.  Times are in hours.  A payload is a record holding the fields    *)
(* the code reads; only 'main.temp' and 'dt' are carried, the other fields *)
(* (feels_like, humidity, pressure, wind.speed, description, dt_txt) are   *)
(* read by the same expressions and fail in the same way when missing.     *)
(***************************************************************************)
EXTENDS Integers, Sequences, FiniteSets

(* ---------------------------- bounds ----------------------------------- *)
MaxCities == 2      \* longest city list
MaxSlots == 2       \* longest 'list' of a forecast payload
MaxCalls == 3       \* method calls a client makes on one dashboard
MaxRequests == 2    \* HTTP requests a client's calls issue in all
UtcOffset == 3      \* local time zone of the host, hours east of UTC

(* ------------------------ program constants ---------------------------- *)
FiveDays == 120     \* timedelta(days=5), in hours

City == {"Moscow", "Kazan"}
Clock == {0, 1}                       \* wall clock when the trend chart renders
NoKey == "None"                       \* Python None for a key
\* <<args.api_key, OPENWEATHER_API_KEY>>: every way of supplying no key, and
\* a key that is found in the environment after an empty argument
KeyInputs ==
  {<<NoKey, NoKey>>, <<"", NoKey>>, <<NoKey, "">>, <<"", "">>, <<"", "k">>}

NoError == "None"

FileNames ==
  {"temperature_comparison.png", "forecast_trends.png",
   "weather_parameters.png", "weather_report.md", "current_weather.csv",
   "forecast_weather.csv", "current_weather.json"}

RECURSIVE SeqsUpTo(_, _)
SeqsUpTo(S, n) ==
  IF n = 0 THEN {<<>>}
  ELSE LET T == SeqsUpTo(S, n - 1)
       IN  T \cup {Append(s, x) : s \in {t \in T : Len(t) = n - 1}, x \in S}


\* args.cities: at least one name; names are interchangeable, so the first
\* one is fixed
CityLists(n) == {s \in SeqsUpTo(City, n) : s # <<>> /\ s[1] = "Moscow"}

Range(s) == {s[k] : k \in 1..Len(s)}

(* ------------------------- HTTP responses ------------------------------ *)
NotJson == [raw |-> "html"]           \* a body response.json() cannot parse

\* the current-weather payload the API serves at time t: 'dt' is the time of
\* the observation, so two responses never carry the same payload
CurrentPayload(t) == [temp |-> 1, dt |-> t]
BadCurrentPayload == [dt |-> 0]       \* 'main' is missing

SlotDt(k) == FiveDays + k - 1
Slot(k) == [temp |-> 1, dt |-> SlotDt(k), dt_txt |-> SlotDt(k)]
ForecastPayloads == {[list |-> [k \in 1..n |-> Slot(k)]] : n \in 0..MaxSlots}
BadForecastPayload == [cod |-> 200]   \* 'list' is missing

CurrentResponses(t) ==
  {[status |-> 200, body |-> b] :
      b \in {CurrentPayload(t), BadCurrentPayload, NotJson}}
  \cup {[status |-> 404, body |-> NotJson]}

ForecastResponses ==
  {[status |-> 200, body |-> b] :
      b \in ForecastPayloads \cup {BadForecastPayload, NotJson}}
  \cup {[status |-> 404, body |-> NotJson]}

VARIABLES
  pc,            \* the statement about to run
  caller,        \* who called the running method: "main", "run_dashboard", "client"
  i,             \* number of list entries a running loop has consumed
  argv_key,      \* args.api_key
  env_key,       \* os.getenv("OPENWEATHER_API_KEY")
  argv_cities,   \* args.cities
  attrs,         \* attributes that exist on the dashboard object
  api_key,       \* self.api_key
  cities,        \* self.cities
  weather_data,  \* self.weather_data, a dict in insertion order
  forecast_data, \* self.forecast_data, a dict in insertion order
  current_df,    \* self.current_df, rows in order
  forecast_df,   \* self.forecast_df, rows in order
  requests,      \* HTTP requests issued so far, with their responses
  out,           \* lines printed to standard output
  outdir,        \* whether output/ has been created
  files,         \* state of each output file
  clock,         \* wall clock read by the last visualize_forecast_trends
  plotted,       \* per entry of self.cities, the rows given to lineplot
  trace,         \* method calls, returns and raises so far
  err            \* the exception in flight or last raised

vars ==
  <<pc, caller, i, argv_key, env_key, argv_cities, attrs, api_key, cities,
    weather_data, forecast_data, current_df, forecast_df, requests, out,
    outdir, files, clock, plotted, trace, err>>

input_vars == <<argv_key, env_key, argv_cities>>
object_vars == <<attrs, api_key, cities>>
raw_vars == <<weather_data, forecast_data>>
table_vars == <<current_df, forecast_df>>
render_vars == <<clock, plotted>>
io_vars == <<requests, out, outdir, files>>

(* ----------------------------- helpers --------------------------------- *)
\* variant: only None counts as missing (an 'is None' test)
TruthyNotNone(x) == x # NoKey

\* x or y, with Python truthiness of an optional string
Truthy(x) == x \notin {NoKey, ""}
PyOr(x, y) == IF Truthy(x) THEN x ELSE y

\* d[k] = v on a dict kept in insertion order: an existing key keeps its place
DictKeys(d) == {d[n].k : n \in 1..Len(d)}
\* variant: every assignment adds an entry (a list of pairs, not a dict)
DictSetAppend(d, k, v) == Append(d, [k |-> k, v |-> v])

DictSet(d, k, v) ==
  IF k \in DictKeys(d)
  THEN [n \in 1..Len(d) |-> IF d[n].k = k THEN [k |-> k, v |-> v] ELSE d[n]]
  ELSE Append(d, [k |-> k, v |-> v])
DictGet(d, k) == d[CHOOSE n \in 1..Len(d) : d[n].k = k].v

\* datetime.fromtimestamp(epoch) and datetime.now(): naive local time
FromTimestamp(epoch) == epoch + UtcOffset

Ev(kind, m) == [ev |-> kind, m |-> m]
NCalls(t) == Cardinality({n \in 1..Len(t) : t[n].ev = "call"})

\* variant: prepare_data is called before fetch_forecast
NextStepSwapped(m) ==
  CASE m = "fetch_current_weather" -> "prepare_data"
    [] m = "prepare_data" -> "fetch_forecast"
    [] m = "fetch_forecast" -> "visualize_temperature_comparison"
    [] m = "visualize_temperature_comparison" -> "visualize_forecast_trends"
    [] m = "visualize_forecast_trends" -> "visualize_weather_parameters"
    [] m = "visualize_weather_parameters" -> "create_weather_report"
    [] m = "create_weather_report" -> "export_data"
    [] m = "export_data" -> "run_done"

\* run_dashboard: the statement that follows the call of method m
NextStep(m) ==
  CASE m = "fetch_current_weather" -> "fetch_forecast"
    [] m = "fetch_forecast" -> "prepare_data"
    [] m = "prepare_data" -> "visualize_temperature_comparison"
    [] m = "visualize_temperature_comparison" -> "visualize_forecast_trends"
    [] m = "visualize_forecast_trends" -> "visualize_weather_parameters"
    [] m = "visualize_weather_parameters" -> "create_weather_report"
    [] m = "create_weather_report" -> "export_data"
    [] m = "export_data" -> "run_done"

\* variant: main's except clause does not match, the exception escapes
PropagateLost(c) == "idle"

\* where an exception raised under the given caller lands: nothing in the
\* class catches, run_dashboard does not catch, main's except clause does
Propagate(c) == IF c = "client" THEN "idle" ELSE "except"

\* method m returns self to its caller
Return(m) ==
  /\ i' = 0
  /\ err' = NoError
  /\ caller' = caller
  /\ IF caller = "run_dashboard"
     THEN /\ pc' = NextStep(m)
          /\ trace' = trace \o <<Ev("ret", m)>> \o
                 (IF NextStep(m) = "run_done" THEN <<>>
                  ELSE <<Ev("call", NextStep(m))>>)
     ELSE /\ pc' = "idle"
          /\ trace' = Append(trace, Ev("ret", m))

\* method m raises exception e
Raise(m, e) ==
  /\ i' = 0
  /\ err' = e
  /\ caller' = caller
  /\ pc' = Propagate(caller)
  /\ trace' = Append(trace, Ev("raise", m))

(* ------------------------------ main ----------------------------------- *)
\* WeatherDashboard.__init__
Construct ==
  /\ pc = "main"
  /\ api_key' = PyOr(argv_key, env_key)
  /\ IF ~Truthy(api_key')
     THEN /\ attrs' = {"api_key"}
          /\ pc' = "except"
          /\ err' = "ValueError"
          /\ trace' = Append(trace, Ev("raise", "__init__"))
          /\ UNCHANGED <<outdir>>
     ELSE /\ attrs' = {"api_key", "base_url", "cities", "weather_data"}
          /\ outdir' = TRUE
          /\ pc' = "add_cities"
          /\ err' = NoError
          /\ trace' = Append(trace, Ev("ret", "__init__"))
  /\ i' = 0
  /\ UNCHANGED <<caller, input_vars, cities, raw_vars, table_vars,
                 render_vars, requests, out, files>>

\* variant: the new city goes to the front of the list
AddCityFront(cs, city_name) == <<city_name>> \o cs

\* add_city
AddCity(cs, city_name) == Append(cs, city_name)

\* main: for city in args.cities: dashboard.add_city(city)
MainAddCity ==
  /\ pc = "add_cities"
  /\ i < Len(argv_cities)
  /\ cities' = AddCity(cities, argv_cities[i + 1])
  /\ i' = i + 1
  /\ trace' = trace \o <<Ev("call", "add_city"), Ev("ret", "add_city")>>
  /\ UNCHANGED <<pc, caller, err, input_vars, attrs, api_key, raw_vars,
                 table_vars, render_vars, io_vars>>

\* main: dashboard.run_dashboard(), up to its first call
MainRunDashboard ==
  /\ pc = "add_cities"
  /\ i = Len(argv_cities)
  /\ pc' = "fetch_current_weather"
  /\ caller' = "run_dashboard"
  /\ i' = 0
  /\ trace' = Append(trace, Ev("call", "fetch_current_weather"))
  /\ UNCHANGED <<err, input_vars, object_vars, raw_vars, table_vars,
                 render_vars, io_vars>>

\* run_dashboard: the two closing prints, then main returns
RunDone ==
  /\ pc = "run_done"
  /\ out' = out \o <<[line |-> "Dashboard generated successfully!"],
                     [line |-> "Check the 'output' directory"]>>
  /\ pc' = "done"
  /\ caller' = "main"
  /\ UNCHANGED <<i, trace, err, input_vars, object_vars, raw_vars,
                 table_vars, render_vars, requests, outdir, files>>

\* main: except Exception as e: print the error and the hints, return
MainExcept ==
  /\ pc = "except"
  /\ out' = out \o <<[line |-> "Error:", e |-> err],
                     [line |-> "To use this dashboard:"]>>
  /\ pc' = "done"
  /\ caller' = "main"
  /\ UNCHANGED <<i, trace, err, input_vars, object_vars, raw_vars,
                 table_vars, render_vars, requests, outdir, files>>

(* ----------------------------- fetching -------------------------------- *)
Request(ep, n, r) ==
  [ep |-> ep, city |-> cities[n], idx |-> n, call |-> NCalls(trace),
   resp |-> r]

\* variant: the first payload of a city is kept (setdefault)
StoreResponseKeepFirst(d, city, r) ==
  IF r.status = 200 /\ city \notin DictKeys(d)
  THEN Append(d, [k |-> city, v |-> r.body]) ELSE d

\* variant: a non-200 response removes the city's entry
StoreResponseDrop(d, city, r) ==
  IF r.status = 200 THEN DictSet(d, city, r.body)
  ELSE SelectSeq(d, LAMBDA e : e.k # city)

\* if response.status_code == 200: mapping[city] = response.json()
StoreResponse(d, city, r) ==
  IF r.status = 200 THEN DictSet(d, city, r.body) ELSE d

\* variant: the line is printed for every response
LogLinesAlways(what, city, r) ==
  <<[line |-> what, city |-> city, status |-> r.status]>>

\* else: print(f"Error fetching ... for {city}: {response.status_code}")
LogLines(what, city, r) ==
  IF r.status = 200 THEN <<>>
  ELSE <<[line |-> what, city |-> city, status |-> r.status]>>

\* the exception a response makes the loop body raise, NoError if none:
\* response.json() raises on a 200 response whose body is not JSON
ResponseError(r) ==
  IF r.status = 200 /\ r.body = NotJson THEN "JSONDecodeError" ELSE NoError

\* fetch_current_weather: one iteration of the loop
FetchCurrentRequest ==
  /\ pc = "fetch_current_weather"
  /\ i < Len(cities)
  /\ \E r \in CurrentResponses(Len(requests) + 1) :
       /\ requests' = Append(requests, Request("weather", i + 1, r))
       /\ IF ResponseError(r) # NoError
          THEN /\ Raise("fetch_current_weather", ResponseError(r))
               /\ UNCHANGED <<weather_data, out>>
          ELSE /\ weather_data' = StoreResponse(weather_data, cities[i + 1], r)
               /\ out' = out \o
                    LogLines("Error fetching data for", cities[i + 1], r)
               /\ i' = i + 1
               /\ UNCHANGED <<pc, caller, trace, err>>
  /\ UNCHANGED <<input_vars, object_vars, forecast_data, table_vars,
                 render_vars, outdir, files>>

\* fetch_current_weather: the loop is exhausted, return self
FetchCurrentReturn ==
  /\ pc = "fetch_current_weather"
  /\ i = Len(cities)
  /\ Return("fetch_current_weather")
  /\ UNCHANGED <<input_vars, object_vars, raw_vars, table_vars, render_vars,
                 io_vars>>

\* fetch_forecast: self.forecast_data = {}
FetchForecastReset ==
  /\ pc = "fetch_forecast"
  /\ forecast_data' = <<>>
  /\ attrs' = attrs \cup {"forecast_data"}
  /\ pc' = "fetch_forecast_loop"
  /\ i' = 0
  /\ UNCHANGED <<caller, trace, err, input_vars, api_key, cities,
                 weather_data, table_vars, render_vars, io_vars>>

\* fetch_forecast: one iteration of the loop
FetchForecastRequest ==
  /\ pc = "fetch_forecast_loop"
  /\ i < Len(cities)
  /\ \E r \in ForecastResponses :
       /\ requests' = Append(requests, Request("forecast", i + 1, r))
       /\ IF ResponseError(r) # NoError
          THEN /\ Raise("fetch_forecast", ResponseError(r))
               /\ UNCHANGED <<forecast_data, out>>
          ELSE /\ forecast_data' =
                    StoreResponse(forecast_data, cities[i + 1], r)
               /\ out' = out \o
                    LogLines("Error fetching forecast for", cities[i + 1], r)
               /\ i' = i + 1
               /\ UNCHANGED <<pc, caller, trace, err>>
  /\ UNCHANGED <<input_vars, object_vars, weather_data, table_vars,
                 render_vars, outdir, files>>

\* fetch_forecast: the loop is exhausted, return self
FetchForecastReturn ==
  /\ pc = "fetch_forecast_loop"
  /\ i = Len(cities)
  /\ Return("fetch_forecast")
  /\ UNCHANGED <<input_vars, object_vars, raw_vars, table_vars, render_vars,
                 io_vars>>

(* --------------------------- prepare_data ------------------------------ *)
\* the subscripts of the record literal succeed on this payload
HasCurrentFields(p) == {"temp", "dt"} \subseteq DOMAIN p
HasList(p) == "list" \in DOMAIN p

CurrentRecords(wd) ==
  [n \in 1..Len(wd) |->
     [city |-> wd[n].k, temperature |-> wd[n].v.temp,
      timestamp |-> FromTimestamp(wd[n].v.dt)]]

\* variant: the city's rows of the previous call are kept
ItemRecordsKept(city, list) ==
  SelectSeq(forecast_df, LAMBDA r : r.city = city) \o
  [n \in 1..Len(list) |->
     [city |-> city, temperature |-> list[n].temp,
      timestamp |-> FromTimestamp(list[n].dt),
      forecast_time |-> list[n].dt_txt]]

ItemRecords(city, list) ==
  [n \in 1..Len(list) |->
     [city |-> city, temperature |-> list[n].temp,
      timestamp |-> FromTimestamp(list[n].dt),
      forecast_time |-> list[n].dt_txt]]

RECURSIVE ForecastRecords(_)
ForecastRecords(fd) ==
  IF fd = <<>> THEN <<>>
  ELSE ItemRecords(Head(fd).k, Head(fd).v.list) \o ForecastRecords(Tail(fd))

PrepareData ==
  /\ pc = "prepare_data"
  /\ IF \E n \in 1..Len(weather_data) : ~HasCurrentFields(weather_data[n].v)
     THEN /\ Raise("prepare_data", "KeyError")
          /\ UNCHANGED <<attrs, table_vars>>
     ELSE /\ current_df' = CurrentRecords(weather_data)
          /\ IF "forecast_data" \notin attrs
             THEN /\ Raise("prepare_data", "AttributeError")
                  /\ attrs' = attrs \cup {"current_df"}
                  /\ UNCHANGED forecast_df
             ELSE IF \E n \in 1..Len(forecast_data) :
                       ~HasList(forecast_data[n].v)
             THEN /\ Raise("prepare_data", "KeyError")
                  /\ attrs' = attrs \cup {"current_df"}
                  /\ UNCHANGED forecast_df
             ELSE /\ forecast_df' = ForecastRecords(forecast_data)
                  /\ attrs' = attrs \cup {"current_df", "forecast_df"}
                  /\ Return("prepare_data")
  /\ UNCHANGED <<input_vars, api_key, cities, raw_vars, render_vars, io_vars>>

(* --------------------- rendering and exporting ------------------------- *)
\* writing output file f: it succeeds, or it fails with an OSError that
\* leaves the file as it was or truncated
Save(f, ok) ==
  IF ok THEN files' = [files EXCEPT ![f] = "written"]
  ELSE \E st \in {files[f], "partial"} : files' = [files EXCEPT ![f] = st]

\* a method whose only effect is one file: barplot, savefig
RenderTo(m, f) ==
  /\ pc = m
  /\ \E ok \in BOOLEAN :
       /\ Save(f, ok)
       /\ IF ok THEN Return(m) ELSE Raise(m, "OSError")
  /\ UNCHANGED <<input_vars, object_vars, raw_vars, table_vars, render_vars,
                 requests, out, outdir>>

VisualizeTemperatureComparison ==
  RenderTo("visualize_temperature_comparison", "temperature_comparison.png")

\* end_date = datetime.now() + timedelta(days=5), read at epoch time now
EndDate(now) == FromTimestamp(now) + FiveDays

\* variant: the bound itself is excluded
FilteredStrict(df, end) == SelectSeq(df, LAMBDA r : r.timestamp < end)

\* self.forecast_df[self.forecast_df['timestamp'] <= end_date]
Filtered(df, end) == SelectSeq(df, LAMBDA r : r.timestamp <= end)

\* filtered_df[filtered_df['city'] == city]
CityData(df, city) == SelectSeq(df, LAMBDA r : r.city = city)

VisualizeForecastTrends ==
  /\ pc = "visualize_forecast_trends"
  /\ \E now \in Clock :
       /\ clock' = now
       /\ IF forecast_df = <<>>
          THEN \* a table without rows has no 'timestamp' column
               /\ Raise("visualize_forecast_trends", "KeyError")
               /\ UNCHANGED <<plotted, files>>
          ELSE /\ plotted' =
                    [n \in 1..Len(cities) |->
                       CityData(Filtered(forecast_df, EndDate(now)),
                                cities[n])]
               /\ \E ok \in BOOLEAN :
                    /\ Save("forecast_trends.png", ok)
                    /\ IF ok THEN Return("visualize_forecast_trends")
                       ELSE Raise("visualize_forecast_trends", "OSError")
  /\ UNCHANGED <<input_vars, object_vars, raw_vars, table_vars, requests,
                 out, outdir>>

VisualizeWeatherParameters ==
  RenderTo("visualize_weather_parameters", "weather_parameters.png")

CreateWeatherReport ==
  /\ pc = "create_weather_report"
  /\ \E ok \in BOOLEAN :
       /\ Save("weather_report.md", ok)
       /\ IF ok
          THEN /\ out' = Append(out, [line |-> "Report generated"])
               /\ Return("create_weather_report")
          ELSE /\ Raise("create_weather_report", "OSError")
               /\ UNCHANGED out
  /\ UNCHANGED <<input_vars, object_vars, raw_vars, table_vars, render_vars,
                 requests, outdir>>

\* export_data: one of its three writes; the last one returns self
ExportWrite(at, f, then) ==
  /\ pc = at
  /\ \E ok \in BOOLEAN :
       /\ Save(f, ok)
       /\ IF ~ok THEN Raise("export_data", "OSError")
          ELSE IF then = "return" THEN Return("export_data")
          ELSE /\ pc' = then
               /\ UNCHANGED <<caller, i, trace, err>>
  /\ UNCHANGED <<input_vars, object_vars, raw_vars, table_vars, render_vars,
                 requests, out, outdir>>

ExportCurrentCsv ==
  ExportWrite("export_data", "current_weather.csv", "export_forecast_csv")

ExportForecastCsv ==
  ExportWrite("export_forecast_csv", "forecast_weather.csv", "export_json")

ExportJson ==
  ExportWrite("export_json", "current_weather.json", "return")

(* --------------------- a client of the class --------------------------- *)
ClientCalls(t) ==
  Cardinality({n \in 1..Len(t) : t[n].ev = "call" /\ t[n].m # "add_city"})

ClientAddCity ==
  /\ pc = "idle"
  /\ Len(cities) < MaxCities
  /\ \E city_name \in City : cities' = AddCity(cities, city_name)
  /\ trace' = trace \o <<Ev("call", "add_city"), Ev("ret", "add_city")>>
  /\ err' = NoError
  /\ UNCHANGED <<pc, caller, i, input_vars, attrs, api_key, raw_vars,
                 table_vars, render_vars, io_vars>>

\* the requests a call of m issues: one per entry of the list, if it fetches
Issues(m) == IF m = "prepare_data" THEN 0 ELSE Len(cities)

ClientCall(m) ==
  /\ pc = "idle"
  /\ ClientCalls(trace) < MaxCalls
  /\ Len(requests) + Issues(m) <= MaxRequests
  /\ pc' = m
  /\ i' = 0
  /\ trace' = Append(trace, Ev("call", m))
  /\ UNCHANGED <<caller, err, input_vars, object_vars, raw_vars, table_vars,
                 render_vars, io_vars>>

ClientFetchCurrentWeather == ClientCall("fetch_current_weather")
ClientFetchForecast == ClientCall("fetch_forecast")
ClientPrepareData == ClientCall("prepare_data")

(* --------------------------- specifications ---------------------------- *)
NoObject ==
  /\ attrs = {}
  /\ api_key = NoKey
  /\ cities = <<>>
  /\ weather_data = <<>>
  /\ forecast_data = <<>>
  /\ current_df = <<>>
  /\ forecast_df = <<>>

NoEffects ==
  /\ requests = <<>>
  /\ out = <<>>
  /\ files = [f \in FileNames |-> "absent"]
  /\ clock = 0
  /\ plotted = <<>>
  /\ trace = <<>>
  /\ err = NoError
  /\ i = 0

\* the program is started from the command line
Init ==
  /\ pc = "main"
  /\ caller = "main"
  /\ \E ks \in KeyInputs : argv_key = ks[1] /\ env_key = ks[2]
  /\ argv_cities \in CityLists(MaxCities)
  /\ outdir = FALSE
  /\ NoObject
  /\ NoEffects

Next ==
  \/ Construct
  \/ MainAddCity
  \/ MainRunDashboard
  \/ FetchCurrentRequest
  \/ FetchCurrentReturn
  \/ FetchForecastReset
  \/ FetchForecastRequest
  \/ FetchForecastReturn
  \/ PrepareData
  \/ VisualizeTemperatureComparison
  \/ VisualizeForecastTrends
  \/ VisualizeWeatherParameters
  \/ CreateWeatherReport
  \/ ExportCurrentCsv
  \/ ExportForecastCsv
  \/ ExportJson
  \/ RunDone
  \/ MainExcept

Spec == Init /\ [][Next]_vars

\* a dashboard has been constructed and a client calls its methods
InitCalls ==
  /\ pc = "idle"
  /\ caller = "client"
  /\ argv_key = "k"
  /\ env_key = NoKey
  /\ argv_cities = <<>>
  /\ outdir = TRUE
  /\ attrs = {"api_key", "base_url", "cities", "weather_data"}
  /\ api_key = "k"
  /\ cities = <<>>
  /\ weather_data = <<>>
  /\ forecast_data = <<>>
  /\ current_df = <<>>
  /\ forecast_df = <<>>
  /\ NoEffects

NextCalls ==
  \/ ClientAddCity
  \/ ClientFetchCurrentWeather
  \/ ClientFetchForecast
  \/ ClientPrepareData
  \/ FetchCurrentRequest
  \/ FetchCurrentReturn
  \/ FetchForecastReset
  \/ FetchForecastRequest
  \/ FetchForecastReturn
  \/ PrepareData

SpecCalls == InitCalls /\ [][NextCalls]_vars

(* ------------------------------ claims --------------------------------- *)
Returned(m) == \E n \in 1..Len(trace) : trace[n] = Ev("ret", m)
Raised(m) == \E n \in 1..Len(trace) : trace[n] = Ev("raise", m)
Reqs(ep) == SelectSeq(requests, LAMBDA e : e.ep = ep)
Rows(df, c) == Cardinality({n \in 1..Len(df) : df[n].city = c})

\* some request for city c at endpoint ep was answered 200 (ok) or not (~ok)
Got(ep, c, ok) ==
  \E n \in 1..Len(requests) :
     /\ requests[n].ep = ep
     /\ requests[n].city = c
     /\ (requests[n].resp.status = 200) = ok

\* the most recent 200 response with a JSON body for city c at endpoint ep
Parsed(e) == e.resp.status = 200 /\ e.resp.body # NotJson
Hits(ep, c) ==
  {n \in 1..Len(requests) :
     requests[n].ep = ep /\ requests[n].city = c /\ Parsed(requests[n])}
LastHit(ep, c) ==
  requests[CHOOSE n \in Hits(ep, c) : \A k \in Hits(ep, c) : k <= n].resp

\* C1 as stated: after fetch_current_weather and prepare_data in a run, a
\* city with a 200 response has exactly one row and a city with a non-200
\* response has none.
C1_Original ==
  Returned("prepare_data") =>
    \A c \in City :
       /\ Got("weather", c, TRUE) => Rows(current_df, c) = 1
       /\ Got("weather", c, FALSE) => Rows(current_df, c) = 0

\* C1 amended: after fetch_current_weather on a new dashboard and a
\* prepare_data that returns, the current-weather table has exactly one row
\* for each city at least one of whose requests returned 200, and no row for
\* a city none of whose requests returned 200.
C1_OneRowPerFetchedCity ==
  Returned("prepare_data") =>
    \A c \in City :
       Rows(current_df, c) = IF Got("weather", c, TRUE) THEN 1 ELSE 0

\* a city listed twice, answered 200 once and 404 once, has its row
C1_Witness ==
  /\ Returned("prepare_data")
  /\ \E c \in City :
       /\ Got("weather", c, TRUE)
       /\ Got("weather", c, FALSE)
       /\ Rows(current_df, c) = 1

\* C2 as stated: after fetch_forecast and prepare_data in a run, the rows of
\* city c number the slots of the list of c's forecast payload, and zero
\* when c's forecast request returned non-200.
C2_Original ==
  Returned("prepare_data") =>
    \A n \in 1..Len(requests) :
       requests[n].ep = "forecast" =>
          IF requests[n].resp.status = 200
          THEN /\ "list" \in DOMAIN requests[n].resp.body
               /\ Rows(forecast_df, requests[n].city) =
                     Len(requests[n].resp.body.list)
          ELSE Rows(forecast_df, requests[n].city) = 0

\* C2 amended: after fetch_forecast and a prepare_data that returns, the
\* rows of city c number the slots of the list in the payload of the last
\* 200 response among c's forecast requests of that call, and zero when none
\* of them returned 200.
C2_RowsPerLastPayload ==
  Returned("prepare_data") =>
    \A c \in City :
       Rows(forecast_df, c) =
          IF Got("forecast", c, TRUE)
          THEN Len(LastHit("forecast", c).body.list) ELSE 0

\* a city listed twice whose two payloads differ in length, the later one
\* deciding the rows
C2_Witness ==
  /\ Returned("prepare_data")
  /\ \E a, b \in 1..Len(requests) :
       /\ a < b
       /\ requests[a].ep = "forecast" /\ requests[b].ep = "forecast"
       /\ requests[a].city = requests[b].city
       /\ Parsed(requests[a]) /\ Parsed(requests[b])
       /\ Len(requests[a].resp.body.list) > Len(requests[b].resp.body.list)
       /\ Rows(forecast_df, requests[b].city) =
             Len(requests[b].resp.body.list)
       /\ Len(requests[b].resp.body.list) > 0

EightSteps ==
  <<"fetch_current_weather", "fetch_forecast", "prepare_data",
    "visualize_temperature_comparison", "visualize_forecast_trends",
    "visualize_weather_parameters", "create_weather_report", "export_data">>

\* the events of run_dashboard's own calls, in order
RunEvents == SelectSeq(trace, LAMBDA e : e.m \notin {"__init__", "add_city"})
AllWritten == \A f \in FileNames : files[f] = "written"
NoneWritten == \A f \in FileNames : files[f] = "absent"

\* C3: run_dashboard calls the eight methods in the stated order, each call
\* made only once the previous one has returned; every current-weather
\* request precedes every forecast request; no output file is touched
\* before prepare_data has returned; a run that ends without error has made
\* all eight calls.
C3_StepsInOrder ==
  /\ LET R == RunEvents
     IN  \A n \in 1..Len(R) :
            IF n % 2 = 1
            THEN R[n] = Ev("call", EightSteps[(n + 1) \div 2])
            ELSE /\ R[n].m = EightSteps[n \div 2]
                 /\ R[n].ev \in {"ret", "raise"}
                 /\ R[n].ev = "raise" => n = Len(R)
  /\ \A a, b \in 1..Len(requests) :
        (requests[a].ep = "forecast" /\ requests[b].ep = "weather") => b < a
  /\ Reqs("forecast") # <<>> => Returned("fetch_current_weather")
  /\ ~NoneWritten => Returned("prepare_data")
  /\ (pc = "done" /\ err = NoError) => Len(RunEvents) = 16

\* a run that made requests at both endpoints and wrote every file
C3_Witness ==
  /\ pc = "done"
  /\ err = NoError
  /\ AllWritten
  /\ Reqs("weather") # <<>>
  /\ Reqs("forecast") # <<>>

ErrorLines(what) == SelectSeq(out, LAMBDA l : l.line = what)
Failures(ep) == SelectSeq(Reqs(ep), LAMBDA e : e.resp.status # 200)
ExpectedLines(what, ep) ==
  LET F == Failures(ep)
  IN  [n \in 1..Len(F) |->
         [line |-> what, city |-> F[n].city, status |-> F[n].resp.status]]

\* every entry of mapping d holds the body of a 200 response for its key
FromHits(d, ep) ==
  \A n \in 1..Len(d) :
     \E k \in 1..Len(requests) :
        /\ requests[k].ep = ep
        /\ requests[k].city = d[n].k
        /\ requests[k].resp.status = 200
        /\ requests[k].resp.body = d[n].v

\* the requests at ep so far are one per list entry, in list order
OnePerEntry(ep) ==
  LET R == Reqs(ep)
  IN  /\ Len(R) <= Len(cities)
      /\ \A n \in 1..Len(R) : R[n].city = cities[n] /\ R[n].idx = n

\* C4: in a run, each fetch issues exactly one request per list entry in
\* list order whatever the earlier statuses, a non-200 response raises
\* nothing, prints exactly one error line for its city and status, and
\* leaves no entry in the mapping.
C4_NonOkIsSkipped ==
  /\ OnePerEntry("weather")
  /\ OnePerEntry("forecast")
  /\ Returned("fetch_current_weather") => Len(Reqs("weather")) = Len(cities)
  /\ Returned("fetch_forecast") => Len(Reqs("forecast")) = Len(cities)
  /\ ErrorLines("Error fetching data for") =
        ExpectedLines("Error fetching data for", "weather")
  /\ ErrorLines("Error fetching forecast for") =
        ExpectedLines("Error fetching forecast for", "forecast")
  /\ (Raised("fetch_current_weather") \/ Raised("fetch_forecast")) =>
        requests[Len(requests)].resp.status = 200
  /\ FromHits(weather_data, "weather")
  /\ FromHits(forecast_data, "forecast")
  /\ \A c \in City :
        /\ ~Got("weather", c, TRUE) => c \notin DictKeys(weather_data)
        /\ ~Got("forecast", c, TRUE) => c \notin DictKeys(forecast_data)

\* both fetches returned although the first request of each was refused and
\* a later one answered
C4_Witness ==
  /\ Returned("fetch_forecast")
  /\ Len(cities) = 2
  /\ cities[1] # cities[2]
  /\ Reqs("weather")[1].resp.status = 404
  /\ Reqs("weather")[2].resp.status = 200
  /\ Reqs("forecast")[1].resp.status = 404
  /\ Reqs("forecast")[2].resp.status = 200
  /\ Len(out) = 2
  /\ DictKeys(weather_data) = {cities[2]}
  /\ DictKeys(forecast_data) = {cities[2]}

\* C6: with neither --api-key nor OPENWEATHER_API_KEY holding a non-empty
\* key, construction raises ValueError, which main catches and prints: no
\* city is added, no request issued, no file or directory created.
C6_NoKeyNoRun ==
  (argv_key \in {NoKey, ""} /\ env_key \in {NoKey, ""} /\ pc # "main") =>
     /\ err = "ValueError"
     /\ pc \in {"except", "done"}
     /\ trace = <<Ev("raise", "__init__")>>
     /\ "cities" \notin attrs
     /\ cities = <<>>
     /\ requests = <<>>
     /\ NoneWritten
     /\ ~outdir
     /\ pc = "done" =>
           out = <<[line |-> "Error:", e |-> "ValueError"],
                   [line |-> "To use this dashboard:"]>>

\* main has returned after printing the configuration error, the variable
\* being set to an empty string
C6_Witness ==
  /\ argv_key = NoKey
  /\ env_key = ""
  /\ pc = "done"
  /\ err = "ValueError"
  /\ Len(out) = 2

\* the output file a statement writes, if it writes one
WritesAt(p) ==
  CASE p = "visualize_temperature_comparison" -> {"temperature_comparison.png"}
    [] p = "visualize_forecast_trends" -> {"forecast_trends.png"}
    [] p = "visualize_weather_parameters" -> {"weather_parameters.png"}
    [] p = "create_weather_report" -> {"weather_report.md"}
    [] p = "export_data" -> {"current_weather.csv"}
    [] p = "export_forecast_csv" -> {"forecast_weather.csv"}
    [] p = "export_json" -> {"current_weather.json"}
    [] OTHER -> {}

\* the files of the methods run_dashboard calls after method m
StepFiles(m) ==
  IF m = "export_data"
  THEN {"current_weather.csv", "forecast_weather.csv", "current_weather.json"}
  ELSE WritesAt(m)
FilesAfter(m) ==
  UNION {StepFiles(EightSteps[n]) :
           n \in {k \in 1..8 : \E j \in 1..8 : j < k /\ EightSteps[j] = m}}

C5_Step ==
  /\ (caller = "run_dashboard" /\ pc # "except" /\ err' # NoError) =>
        /\ pc' = "except"
        /\ trace' = Append(trace, Ev("raise", trace[Len(trace)].m))
        /\ Len(requests') \in {Len(requests), Len(requests) + 1}
        /\ \A f \in FileNames :
              files'[f] # files[f] => f \in WritesAt(pc) /\ files'[f] = "partial"
        /\ \A f \in FilesAfter(trace[Len(trace)].m) : files'[f] = "absent"
  /\ pc = "except" =>
        /\ pc' = "done"
        /\ files' = files
        /\ requests' = requests
        /\ trace' = trace
        /\ err' = err
        /\ out' = out \o <<[line |-> "Error:", e |-> err],
                           [line |-> "To use this dashboard:"]>>
        /\ Len(SelectSeq(out', LAMBDA l : l.line = "Error:")) = 1
  /\ pc # "done"

\* C5: when a step of run_dashboard raises (a payload without a field in
\* prepare_data, a body that is not JSON, a failed file write), control goes
\* to main's except clause: no later step is called, no file of a later
\* step exists, every file written before stays written (the failing write
\* alone may leave its own file truncated), and main prints the error once
\* and returns.
C5_FailureAborts == [][C5_Step]_vars

\* export_data failed at its second write: the first file stays, the third
\* is never written, main has returned
C5_Witness ==
  /\ pc = "done"
  /\ err = "OSError"
  /\ trace # <<>>
  /\ trace[Len(trace)] = Ev("raise", "export_data")
  /\ files["current_weather.csv"] = "written"
  /\ files["weather_report.md"] = "written"
  /\ files["forecast_weather.csv"] = "partial"
  /\ files["current_weather.json"] = "absent"
  /\ out[Len(out) - 1] = [line |-> "Error:", e |-> "OSError"]

\* C9: the trend chart gets, for each entry of the city list, exactly the
\* forecast rows of that city whose time is at most the wall clock at
\* render plus five days, in table order; later rows are left out of the
\* chart while the forecast table keeps every row of every payload.
C9_TrendWindow ==
  Returned("visualize_forecast_trends") =>
    /\ Len(plotted) = Len(cities)
    /\ \A k \in 1..Len(cities) :
          plotted[k] =
             SelectSeq(forecast_df,
                       LAMBDA r : /\ r.city = cities[k]
                                  /\ r.forecast_time <= clock + FiveDays)
    /\ \A c \in City :
          Rows(forecast_df, c) =
             IF Got("forecast", c, TRUE)
             THEN Len(LastHit("forecast", c).body.list) ELSE 0

\* a chart that keeps the row exactly five days ahead and drops a later one
C9_Witness ==
  /\ Returned("visualize_forecast_trends")
  /\ \E k \in 1..Len(plotted) :
        /\ \E n \in 1..Len(plotted[k]) :
              plotted[k][n].forecast_time = clock + FiveDays
        /\ \E n \in 1..Len(forecast_df) :
              /\ forecast_df[n].city = cities[k]
              /\ forecast_df[n].forecast_time > clock + FiveDays
              /\ forecast_df[n] \notin Range(plotted[k])

\* row r of the current-weather table comes from request e
CurrentRowFrom(r, e) ==
  /\ e.ep = "weather"
  /\ Parsed(e)
  /\ e.city = r.city
  /\ r.timestamp = e.resp.body.dt + UtcOffset

\* row r of the forecast table comes from a slot of request e
ForecastRowFrom(r, e) ==
  /\ e.ep = "forecast"
  /\ Parsed(e)
  /\ "list" \in DOMAIN e.resp.body
  /\ e.city = r.city
  /\ \E n \in 1..Len(e.resp.body.list) :
        e.resp.body.list[n].dt_txt = r.forecast_time

\* the list entry request e was issued for is still there and is city c
ListedAt(e, c) == e.idx \in 1..Len(cities) /\ cities[e.idx] = c

\* C7: whatever the client calls, every row of both tables carries the city
\* string of the list entry its payload was requested for.
C7_RowCityWasListed ==
  /\ \A n \in 1..Len(current_df) :
        \E k \in 1..Len(requests) :
           /\ CurrentRowFrom(current_df[n], requests[k])
           /\ ListedAt(requests[k], current_df[n].city)
  /\ \A n \in 1..Len(forecast_df) :
        \E k \in 1..Len(requests) :
           /\ ForecastRowFrom(forecast_df[n], requests[k])
           /\ ListedAt(requests[k], forecast_df[n].city)

\* both tables hold rows fetched before a second, different city was added
C7_Witness ==
  /\ current_df # <<>>
  /\ forecast_df # <<>>
  /\ Len(cities) = 2
  /\ cities[1] # cities[2]
  /\ trace # <<>>
  /\ trace[Len(trace)] = Ev("ret", "add_city")
  /\ \A k \in 1..Len(requests) : requests[k].idx = 1

C8_Step ==
  pc = "prepare_data" =>
    /\ UNCHANGED <<weather_data, forecast_data, cities>>
    /\ (Len(trace) >= 2 /\ trace[Len(trace) - 1].m = "prepare_data") =>
          UNCHANGED <<current_df, forecast_df>>

\* C8: prepare_data never changes the raw mappings or the city list, and a
\* prepare_data called right after a prepare_data leaves both tables exactly
\* as the first call left them.
C8_PrepareIdempotent == [][C8_Step]_vars

\* two prepare_data calls in a row have returned, on a table with rows
C8_Witness ==
  /\ Len(trace) >= 4
  /\ SubSeq(trace, Len(trace) - 3, Len(trace)) =
        <<Ev("call", "prepare_data"), Ev("ret", "prepare_data"),
          Ev("call", "prepare_data"), Ev("ret", "prepare_data")>>
  /\ Len(forecast_df) >= 2

\* the 200 responses of the fetch_forecast call that just returned
HitsOfCall(ep, id) ==
  {k \in 1..Len(requests) :
     /\ requests[k].ep = ep
     /\ requests[k].call = id
     /\ requests[k].resp.status = 200}

====
